---- MODULE Spec2Model ----
(***************************************************************************)
(* Model of the queue-fed worker pools of cargo_parser:                    *)
(*   domain/parsing.py  CargoParserWithToken  (two dependent remote calls) *)
(*   domain/cities.py   CityParser            (cache, one remote call)     *)
(* One parser instance is modelled per behaviour (variable parser says     *)
(* which); it may be asked to run several batches one after another.       *)
(* Workers are asyncio tasks: an action is the code a task runs between    *)
(* two suspension points.                                                  *)
(***************************************************************************)
EXTENDS Integers, Sequences, FiniteSets, TLC

\* ------------------------------------------------------------------ bounds
MaxItems == 2      \* longest batch handed to a parser
MaxThreads == 2    \* largest thread_limit a parser is constructed with
MaxTotal == 3      \* items handed to one instance over all its calls

\* ------------------------------------------------------------ plain values
None == "None"

Min(a, b) == IF a <= b THEN a ELSE b

Workers == 1..MaxThreads

ThreadLimits == (0 - 1)..MaxThreads

NetModes == {"up", "down"}

\* uuid.UUID(x): raises on None and on a malformed string, otherwise the
\* UUID object, written here by its canonical (lower-case) string.
ValidUuidStrings == {"U1", "u1", "u2", "c0", "c1", "c2", "c3"}

UuidCanon(s) == IF s = "U1" THEN "u1" ELSE s

\* mutant of UUID: the service id is taken from the answer unchecked
UUIDUnchecked(x) == [ok |-> TRUE, val |-> UuidCanon(x)]

UUID(x) ==
    IF x \in ValidUuidStrings THEN [ok |-> TRUE, val |-> UuidCanon(x)]
    ELSE [ok |-> FALSE, val |-> None]

\* models.CustomUid serializer: str(uid); an absent uid stays None
StrUid(u) == IF u = None THEN None ELSE u

\* ------------------------------------------------------- cargo: the model
Requests == 1..MaxItems

\* models.RequestForCargo as MainTokenCargoInterFace builds it
NewRequest(i) ==
    [ without_add_services |-> 0,
      service_id |-> None,
      mode |-> "HOME-HOME",
      payer_type |-> "sender",
      currency_mark |-> "RUB",
      sender_city_id |-> "c0",
      sender_city_name |-> "Moscow",
      receiver_city_id |-> "c1",
      receiver_city_name |-> "Tver",
      packages |-> << [height |-> 1, length |-> 1, width |-> 1, weight |-> i] >>,
      additional_services |-> << >>,
      duration_min |-> None,
      duration_max |-> None,
      cargo_type_descr |-> "express",
      tariff_description |-> "16:00" ]

\* RequestForServiceId(...).model_dump(by_alias=True)
ServiceIdBody(r) ==
    [ payerType |-> r.payer_type,
      currencyMark |-> r.currency_mark,
      senderCityId |-> StrUid(r.sender_city_id),
      receiverCityId |-> StrUid(r.receiver_city_id),
      packages |-> r.packages ]

\* RequestForCargo.model_dump(by_alias=True): excluded fields dropped
ModelDump(r) ==
    [ withoutAdditionalServices |-> r.without_add_services,
      serviceId |-> StrUid(r.service_id),
      mode |-> r.mode,
      payerType |-> r.payer_type,
      currencyMark |-> r.currency_mark,
      senderCityId |-> StrUid(r.sender_city_id),
      receiverCityId |-> StrUid(r.receiver_city_id),
      packages |-> r.packages,
      additionalServices |-> r.additional_services ]

\* --------------------------------------------------- JSON payloads (model)
\* A JSON scalar of a response is written as a string ("1", "100" are JSON
\* numbers); None is a missing key or a JSON null.  A list that may be
\* missing is written [isnone, items].
Numbers == {"1", "2", "3", "20", "100", "120"}

\* mutant of IsNumber: a missing value passes for a number
IsNumberOrNone(x) == x \in Numbers \cup {None}

IsNumber(x) == x \in Numbers

NoList == [isnone |-> TRUE, items |-> << >>]

List(s) == [isnone |-> FALSE, items |-> s]

\* python truthiness of a value that is None or a list
Truthy(l) == ~l.isnone /\ Len(l.items) > 0

Tariff(m, sd, sid, dmin, dmax) ==
    [mode |-> m, shortDescription |-> sd, serviceId |-> sid,
     durationMin |-> dmin, durationMax |-> dmax]

Group(d, ts) == [description |-> d, tariffs |-> ts]

TGood == Tariff("HOME-HOME", "16:00", "U1", "1", "2")

TGood2 == Tariff("HOME-HOME", "16:00", "u2", "2", "3")

TOtherMode == Tariff("HOME-OFFICE", "16:00", "u2", "1", "2")

TOtherDescr == Tariff("HOME-HOME", "18:00", "u2", "1", "2")

TNoServiceId == Tariff("HOME-HOME", "16:00", None, "1", "2")

TNoDuration == Tariff("HOME-HOME", "16:00", "u2", None, None)

\* a remote call that raises instead of answering (aiohttp.ClientError, ...)
TransportError == [err |-> TRUE, data |-> NoList]

SvcData(gs) == [err |-> FALSE, data |-> gs]

\* answers of the tariff-estimate endpoint the model draws from
SvcResponses ==
    { TransportError,
      SvcData(NoList),
      SvcData(List(<< Group("other", List(<< TGood >>)) >>)),
      SvcData(List(<< Group("express", List(<< TOtherMode, TOtherDescr >>)) >>)),
      SvcData(List(<< Group("other", List(<< TGood2 >>)),
                      Group("express", List(<< TOtherDescr, TGood >>)) >>)),
      SvcData(List(<< Group("express", List(<< TOtherMode >>)),
                      Group("express", List(<< TGood2 >>)) >>)),
      SvcData(List(<< Group("express", List(<< TNoServiceId >>)) >>)),
      SvcData(List(<< Group("express", List(<< TNoDuration >>)) >>)),
      SvcData(List(<< Group("express", NoList) >>)) }

Raise == [ok |-> FALSE, service_id |-> None, duration_min |-> None, duration_max |-> None]

\* mutant of ScanTariffs: only the mode of a tariff is compared
RECURSIVE ScanTariffsModeOnly(_, _, _)
ScanTariffsModeOnly(ts, r, k) ==
    IF k > Len(ts) THEN [st |-> "next", out |-> Raise]
    ELSE LET t == ts[k]
         IN IF t.mode = r.mode
            THEN IF UUID(t.serviceId).ok
                 THEN [st |-> "found",
                       out |-> [ok |-> TRUE, service_id |-> UUID(t.serviceId).val,
                                duration_min |-> t.durationMin,
                                duration_max |-> t.durationMax]]
                 ELSE [st |-> "raise", out |-> Raise]
            ELSE ScanTariffsModeOnly(ts, r, k + 1)

\* the inner loop of _parse_service_id over one group's tariffs, from index k:
\* "found" (return), "raise" (UUID() raised) or "next" (loop ended)
RECURSIVE ScanTariffs(_, _, _)
ScanTariffs(ts, r, k) ==
    IF k > Len(ts) THEN [st |-> "next", out |-> Raise]
    ELSE LET t == ts[k]
             condition == t.mode = r.mode /\ t.shortDescription = r.tariff_description
         IN IF condition
            THEN IF UUID(t.serviceId).ok
                 THEN [st |-> "found",
                       out |-> [ok |-> TRUE, service_id |-> UUID(t.serviceId).val,
                                duration_min |-> t.durationMin,
                                duration_max |-> t.durationMax]]
                 ELSE [st |-> "raise", out |-> Raise]
            ELSE ScanTariffs(ts, r, k + 1)

\* mutant of ScanGroups: the group's description is not compared with the
\* request's cargo_type_descr
RECURSIVE ScanGroupsAnyGroup(_, _, _)
ScanGroupsAnyGroup(gs, r, k) ==
    IF k > Len(gs) THEN Raise
    ELSE LET g == gs[k]
         IN IF g.tariffs.isnone THEN Raise
            ELSE LET inner == ScanTariffs(g.tariffs.items, r, 1)
                 IN IF inner.st = "next" THEN ScanGroupsAnyGroup(gs, r, k + 1)
                    ELSE inner.out

\* the outer loop of _parse_service_id over the tariff groups, from index k
RECURSIVE ScanGroups(_, _, _)
ScanGroups(gs, r, k) ==
    IF k > Len(gs) THEN Raise
    ELSE LET g == gs[k]
         IN IF g.description # r.cargo_type_descr THEN ScanGroups(gs, r, k + 1)
            ELSE IF g.tariffs.isnone THEN Raise
            ELSE LET inner == ScanTariffs(g.tariffs.items, r, 1)
                 IN IF inner.st = "next" THEN ScanGroups(gs, r, k + 1)
                    ELSE inner.out

\* _parse_service_id applied to the endpoint's answer: [ok, service_id,
\* duration_min, duration_max]; ok = FALSE when the method raises
ParseServiceId(resp, r) ==
    IF resp.err THEN Raise
    ELSE IF ~Truthy(resp.data) THEN Raise
    ELSE ScanGroups(resp.data.items, r, 1)

ServiceItem(a, n, pd, c) ==
    [alias |-> a, original_name |-> n, hasPaymentDetail |-> pd, totalCost |-> c]

PriceData(dp, tc, svcs) ==
    [err |-> FALSE, hasData |-> TRUE, deliveryPrice |-> dp, totalCost |-> tc,
     calculatedAdditionalServices |-> svcs]

PriceNoData ==
    [err |-> FALSE, hasData |-> FALSE, deliveryPrice |-> None, totalCost |-> None,
     calculatedAdditionalServices |-> NoList]

\* answers of the price-calculation endpoint the model draws from
PriceResponses ==
    { TransportError,
      PriceNoData,
      PriceData("100", "120", NoList),
      PriceData("100", "120", List(<< ServiceItem("insurance", "Insurance", TRUE, "20") >>)),
      PriceData("100", "120", List(<< ServiceItem("insurance", "Insurance", FALSE, None) >>)),
      PriceData(None, "120", NoList) }

\* models.CalculatedService(alias=..., original_name=..., total_cost=...)
CalculatedService(it) ==
    [alias |-> it.alias, original_name |-> it.original_name, total_cost |-> it.totalCost]

\* does building the CalculatedService of a response item raise
\* (item.get('paymentDetail') is None, or pydantic rejects a field)
ServiceItemRaises(it) ==
    \/ ~it.hasPaymentDetail
    \/ it.alias = None
    \/ it.original_name = None
    \/ ~IsNumber(it.totalCost)

NoRoute ==
    [city_from |-> None, city_to |-> None, delivery_price |-> None, total_cost |-> None,
     request |-> 0, services |-> << >>, duration_min |-> None, duration_max |-> None,
     weight |-> 0]

\* _extract_data_from_resp_dict: [ok, route]; ok = FALSE when it raises.
\* i is the identity of the request object r.
ExtractData(resp, i, r) ==
    IF resp.err \/ ~resp.hasData THEN [ok |-> FALSE, route |-> NoRoute]
    ELSE LET service_list == IF Truthy(resp.calculatedAdditionalServices)
                             THEN resp.calculatedAdditionalServices.items
                             ELSE << >>
         IN IF \E k \in 1..Len(service_list) : ServiceItemRaises(service_list[k])
            THEN [ok |-> FALSE, route |-> NoRoute]
            ELSE IF ~IsNumber(resp.deliveryPrice) \/ ~IsNumber(resp.totalCost)
                    \/ ~IsNumber(r.duration_min) \/ ~IsNumber(r.duration_max)
                    \/ Len(r.packages) = 0
            THEN [ok |-> FALSE, route |-> NoRoute]
            ELSE [ok |-> TRUE,
                  route |-> [city_from |-> r.sender_city_name,
                             city_to |-> r.receiver_city_name,
                             delivery_price |-> resp.deliveryPrice,
                             total_cost |-> resp.totalCost,
                             request |-> i,
                             services |-> [k \in 1..Len(service_list) |->
                                              CalculatedService(service_list[k])],
                             duration_min |-> r.duration_min,
                             duration_max |-> r.duration_max,
                             weight |-> r.packages[1].weight]]

\* models.RequestsReport(routes_total=..., routes_success=..., routes_fail=...,
\* routes_fail_list=...)
RequestsReport(total, success, fail, fail_list) ==
    [routes_total |-> total, routes_success |-> success, routes_fail |-> fail,
     routes_fail_list |-> fail_list]

\* ------------------------------------------------------- cities: the model
CityNames == {"Moscow", "Unknownville"}

\* a python dict is the set of its <<key, value>> pairs
EmptyDict == {}

DictSet(d, k, v) == {p \in d : p[1] # k} \cup {<<k, v>>}

DictGet(d, k) == IF \E p \in d : p[1] = k THEN (CHOOSE p \in d : p[1] = k)[2] ELSE None

Candidate(n, u, f) == [name |-> n, uuid |-> u, fullName |-> f]

CityUid(n) == IF n = "Moscow" THEN "c0" ELSE "c3"

CityData(cs) == [err |-> FALSE, data |-> List(cs)]

\* answers of the autocomplete endpoint for the query n the model draws from
CityResponses(n) ==
    { TransportError,
      [err |-> FALSE, data |-> NoList],
      CityData(<< >>),
      CityData(<< Candidate(n, CityUid(n), "full " \o n) >>),
      CityData(<< Candidate("Moscow Oblast", "c2", "full Moscow Oblast") >>),
      CityData(<< Candidate("Moscow Oblast", "c2", "full Moscow Oblast"),
                  Candidate(n, CityUid(n), "full " \o n) >>) }

\* the loop of _extract_city_dict over the candidates, from index k
RECURSIVE ScanCandidates(_, _, _, _)
ScanCandidates(cs, city_name, k, city_dict) ==
    IF k > Len(cs) THEN city_dict
    ELSE IF cs[k].name # city_name
         THEN ScanCandidates(cs, city_name, k + 1, city_dict)
         ELSE ScanCandidates(cs, city_name, k + 1,
                  DictSet(DictSet(DictSet(city_dict, "name", city_name),
                                  "city_uid", cs[k].uuid),
                          "full_name", cs[k].fullName))

\* _extract_city_dict: [ok, dict]; ok = FALSE when it raises
ExtractCityDict(resp, city_name) ==
    IF resp.err \/ ~Truthy(resp.data) THEN [ok |-> FALSE, dict |-> EmptyDict]
    ELSE [ok |-> TRUE, dict |-> ScanCandidates(resp.data.items, city_name, 1, EmptyDict)]

\* models.CitiesReport(**kw): pydantic fills the declared fields from the
\* keywords of the same name, ignores other keywords, defaults the rest
CitiesReport(kw) ==
    [cities_total |-> IF "cities_total" \in DOMAIN kw THEN kw.cities_total ELSE 0,
     cities_success |-> IF "cities_success" \in DOMAIN kw THEN kw.cities_success ELSE 0,
     cities_fail |-> IF "cities_fail" \in DOMAIN kw THEN kw.cities_fail ELSE 0,
     routes_fail_list |-> IF "routes_fail_list" \in DOMAIN kw THEN kw.routes_fail_list
                          ELSE << >>]

\* m.get(name) on a dict of dicts: the entry, or None (written as the empty
\* dict: both are falsy, and the code only tests the truth of the result)
MapGet(m, name) == IF name \in DOMAIN m THEN m[name] ELSE EmptyDict

\* mutant of MapPut: the write is skipped
MapPutSkipped(m, name, d) == m

\* mutant of MapPut: the first write for a name stores an empty record
MapPutDropFirst(m, name, d) ==
    [n \in DOMAIN m \cup {name} |->
        IF n = name THEN (IF name \in DOMAIN m THEN d ELSE EmptyDict) ELSE m[n]]

\* m[name] = d
MapPut(m, name, d) == [n \in DOMAIN m \cup {name} |-> IF n = name THEN d ELSE m[n]]

\* ------------------------------------------------------------------ state
VARIABLES
    parser,            \* the instance under study: "cargo" or "city"
    oracle,            \* the autocomplete endpoint: free, or one answer per name
    pure,              \* a method called on its own: its arguments and its result
    thread_limit,      \* self._thread_limit
    nsubmitted,        \* items handed to the instance so far, over all calls
    net,               \* the network during the current call: "up" or "down"
    mainpc,            \* the caller: "idle", "join", "gather", "returned"
    batch,             \* the list passed to the current / last call
    submitted,         \* cargo: field values of every request when the call began
    report,            \* the report the last call returned
    queue,             \* self._queue: the items not yet taken
    unfinished,        \* self._queue._unfinished_tasks
    pc,                \* per task: "none", "start", "sleep", "service_id",
                       \*   "price", "city", "exited"
    item,              \* per task: the item taken and not yet acknowledged
    call,              \* per task: the outbound call it is suspended at
    cancel_req,        \* tasks on which task.cancel() was called
    req,               \* cargo: the RequestForCargo objects, by identity
    routes_success, routes_fail, routes_fail_list, result_list,
    cached_cities, results, cities_success, cities_fail, cities_fail_list

engineVars == <<parser, oracle, thread_limit, nsubmitted, net, mainpc, batch, submitted, report,
                queue, unfinished, pc, item, call, cancel_req>>

cargoVars == <<req, routes_success, routes_fail, routes_fail_list, result_list>>

cityVars == <<cached_cities, results, cities_success, cities_fail, cities_fail_list>>

vars == <<engineVars, cargoVars, cityVars, pure>>

NoItem == IF parser = "cargo" THEN 0 ELSE None

NoCall == [kind |-> "none"]

NoReport == [routes_fail_list |-> << >>]

\* ascending lists of distinct requests, at most MaxItems long
CargoBatches ==
    {b \in UNION {[1..n -> Requests] : n \in 0..MaxItems} :
        \A i \in 1..Len(b) : \A j \in 1..Len(b) : i < j => b[i] < b[j]}

\* lists of city names (a name may repeat), at most MaxItems long
CityBatches == UNION {[1..n -> CityNames] : n \in 0..MaxItems}

\* the cache the caller hands to CityParser(cached_cities): what the city
\* repository loaded
InitialCaches ==
    { << >>,
      [n \in {"Moscow"} |-> {<<"name", "Moscow">>, <<"city_uid", "c0">>,
                             <<"full_name", "full Moscow">>}] }

\* the fields the constructors set, and a run not yet started
InitInstance ==
    /\ thread_limit \in ThreadLimits
    /\ nsubmitted = 0
    /\ net = "up"
    /\ mainpc = "idle"
    /\ batch = << >>
    /\ submitted = [i \in Requests |-> NewRequest(i)]
    /\ report = NoReport
    /\ queue = << >>
    /\ unfinished = 0
    /\ pc = [w \in Workers |-> "none"]
    /\ item = [w \in Workers |-> NoItem]
    /\ call = [w \in Workers |-> NoCall]
    /\ cancel_req = {}
    /\ req = [i \in Requests |-> NewRequest(i)]
    /\ routes_success = 0
    /\ routes_fail = 0
    /\ routes_fail_list = << >>
    /\ result_list = << >>
    /\ cached_cities \in (IF parser = "city" THEN InitialCaches ELSE {<< >>})
    /\ results = << >>
    /\ cities_success = 0
    /\ cities_fail = 0
    /\ cities_fail_list = << >>

\* no method is called on its own
NoPure == [op |-> "none"]

\* an autocomplete endpoint whose answers are not tied to the query
FreeNetwork == [fixed |-> FALSE, of |-> [n \in CityNames |-> TransportError]]

\* CargoParserWithToken.__init__ / CityParser.__init__
Init ==
    /\ parser \in {"cargo", "city"}
    /\ oracle = FreeNetwork
    /\ pure = NoPure
    /\ InitInstance

\* mutant of Spawned: as many tasks as thread_limit, whatever the batch
SpawnedPoolSize(n) == {w \in Workers : w <= thread_limit}

\* mutant of Spawned: a pool without tasks is given one
SpawnedAtLeastOne(n) ==
    {w \in Workers : w <= Min(n, IF thread_limit <= 0 THEN 1 ELSE thread_limit)}

\* the tasks _run_cargo_parsing / _run_city_parsing creates for n items
Spawned(n) == {w \in Workers : w <= Min(n, thread_limit)}

\* a loop that would handle an answer or a barrier before the first steps
AllStartedUnordered == TRUE

\* The event loop runs its ready callbacks in the order they were scheduled:
\* the first steps of the tasks just created run, in the order of their
\* creation, before any timer or any answer of the network is handled.
AllStarted == \A v \in Workers : pc[v] # "start"

\* the task w is ready to run: for the first time, after the tasks created
\* before it, or at the end of the delay of its empty-queue poll
Ready(w) ==
    \/ pc[w] = "start" /\ \A v \in Workers : v < w => pc[v] # "start"
    \/ pc[w] = "sleep" /\ AllStarted

\* ------------------------------------------------------ cargo: the engine
\* mutant of CargoLoopTop: the task suspends between taking an item and
\* posting the service-id request
CargoLoopTopYieldAfterGet(q, rq) ==
    IF Len(q) <= 0
    THEN [pc |-> "sleep", item |-> 0, queue |-> q, call |-> NoCall]
    ELSE [pc |-> "sleep", item |-> Head(q), queue |-> Tail(q), call |-> NoCall]

\* the top of _worker's loop up to its next suspension point, with the
\* queue q: sleep when the queue is empty, else take an item and post the
\* service-id request
CargoLoopTop(q, rq) ==
    IF Len(q) <= 0
    THEN [pc |-> "sleep", item |-> 0, queue |-> q, call |-> NoCall]
    ELSE [pc |-> "service_id", item |-> Head(q), queue |-> Tail(q),
          call |-> [kind |-> "service_id", body |-> ServiceIdBody(rq[Head(q)])]]

\* retrieve_data: _run_cargo_parsing up to `await self._queue.join()`; a
\* call with no request passes the barrier at once and returns
RetrieveData(b) ==
    /\ parser = "cargo"
    /\ mainpc \in {"idle", "returned"}
    /\ nsubmitted + Len(b) <= MaxTotal
    /\ nsubmitted' = nsubmitted + Len(b)
    /\ net' \in NetModes
    /\ batch' = b
    /\ submitted' = req
    /\ queue' = b
    /\ unfinished' = Len(b)
    /\ pc' = [w \in Workers |-> IF w \in Spawned(Len(b)) THEN "start" ELSE "none"]
    /\ item' = [w \in Workers |-> 0]
    /\ call' = [w \in Workers |-> NoCall]
    /\ cancel_req' = {}
    /\ IF Len(b) = 0
       THEN /\ mainpc' = "returned"
            /\ report' = RequestsReport(Len(b), routes_success, routes_fail,
                                        routes_fail_list)
       ELSE /\ mainpc' = "join"
            /\ UNCHANGED report
    /\ UNCHANGED <<parser, oracle, pure, thread_limit, cargoVars, cityVars>>

\* a task of _worker runs from its start, or from the end of its sleep, to
\* its next suspension point
CargoWorkerRun(w) ==
    /\ parser = "cargo"
    /\ Ready(w)
    /\ w \notin cancel_req
    /\ LET lt == CargoLoopTop(queue, req)
       IN /\ pc' = [pc EXCEPT ![w] = lt.pc]
          /\ item' = [item EXCEPT ![w] = lt.item]
          /\ call' = [call EXCEPT ![w] = lt.call]
          /\ queue' = lt.queue
    /\ UNCHANGED <<parser, oracle, pure, thread_limit, nsubmitted, net, mainpc, batch, submitted, report,
                   unfinished, cancel_req, cargoVars, cityVars>>

\* The answers the engine's network draws from: for each handler, answers
\* on which it raises (a transport error among them) and one on which it
\* returns.
SvcGood ==
    SvcData(List(<< Group("other", List(<< TGood2 >>)),
                    Group("express", List(<< TOtherDescr, TGood >>)) >>))

EngineSvcResponses ==
    { TransportError,
      SvcData(List(<< Group("other", List(<< TGood >>)) >>)),
      SvcData(List(<< Group("express", List(<< TOtherMode, TOtherDescr >>)) >>)),
      SvcData(List(<< Group("express", List(<< TNoServiceId >>)) >>)),
      SvcGood }

PriceGood == PriceData("100", "120", NoList)

EnginePriceResponses == {TransportError, PriceNoData, PriceGood}

EngineCityResponses(n) ==
    { TransportError,
      CityData(<< >>),
      CityData(<< Candidate("Moscow Oblast", "c2", "full Moscow Oblast") >>),
      CityData(<< Candidate("Moscow Oblast", "c2", "full Moscow Oblast"),
                  Candidate(n, CityUid(n), "full " \o n) >>) }

\* what the endpoint a task is suspended at may answer in the current call
Answers(kind, arg) ==
    IF kind \notin {"service_id", "price", "city"} THEN {}
    ELSE IF kind = "city" /\ oracle.fixed THEN {oracle.of[arg]}
    ELSE IF net = "down" THEN {TransportError}
    ELSE IF kind = "service_id" THEN EngineSvcResponses
    ELSE IF kind = "price" THEN EnginePriceResponses
    ELSE IF kind = "city" THEN EngineCityResponses(arg)
    ELSE {}

\* mutant of AttachResolved: the durations are not attached
AttachResolvedNoDuration(rq, out) == [rq EXCEPT !.service_id = out.service_id]

\* _worker lines 110-113: the resolved values are attached to the request
AttachResolved(rq, out) ==
    [rq EXCEPT !.service_id = out.service_id,
               !.duration_min = out.duration_min,
               !.duration_max = out.duration_max]

\* mutant of CargoExcept: the fail counter is not incremented
CargoExceptNoCount(fail, fail_list, cargo_request) ==
    [fail |-> fail, fail_list |-> Append(fail_list, cargo_request)]

\* _worker's except branch (lines 123-127): the new fail counter and fail list
CargoExcept(fail, fail_list, cargo_request) ==
    [fail |-> fail + 1, fail_list |-> Append(fail_list, cargo_request)]

\* mutant of TaskDone: an item is never acknowledged
TaskDoneNever(unf) == unf

\* mutant of TaskDone: an item is acknowledged twice
TaskDoneTwice(unf) == unf - 2

\* asyncio.Queue.task_done(): the new count of unfinished tasks
TaskDone(unf) == unf - 1

\* _worker resumes with the answer r to its service-id request: lines 109-116
\* when _parse_service_id returns, else the except branch, task_done and the
\* loop top
CargoServiceIdResume(w, r) ==
    /\ parser = "cargo"
    /\ pc[w] = "service_id"
    /\ AllStarted
    /\ w \notin cancel_req
    /\ r \in Answers("service_id", item[w])
    /\ LET i == item[w]
           out == ParseServiceId(r, req[i])
           lt == CargoLoopTop(queue, req)
       IN IF out.ok
          THEN /\ req' = [req EXCEPT ![i] = AttachResolved(req[i], out)]
               /\ pc' = [pc EXCEPT ![w] = "price"]
               /\ call' = [call EXCEPT ![w] = [kind |-> "price", body |-> ModelDump(req'[i])]]
               /\ UNCHANGED <<item, queue, unfinished, routes_success, routes_fail,
                              routes_fail_list, result_list>>
          ELSE /\ routes_fail' = CargoExcept(routes_fail, routes_fail_list, i).fail
               /\ routes_fail_list' = CargoExcept(routes_fail, routes_fail_list, i).fail_list
               /\ unfinished' = TaskDone(unfinished)
               /\ pc' = [pc EXCEPT ![w] = lt.pc]
               /\ item' = [item EXCEPT ![w] = lt.item]
               /\ call' = [call EXCEPT ![w] = lt.call]
               /\ queue' = lt.queue
               /\ UNCHANGED <<req, routes_success, result_list>>
    /\ UNCHANGED <<parser, oracle, pure, thread_limit, nsubmitted, net, mainpc, batch, submitted, report,
                   cancel_req, cityVars>>

\* _worker resumes with the answer r to its price request: lines 117-121 when
\* the Route is built, else the except branch; then task_done and the loop top
CargoPriceResume(w, r) ==
    /\ parser = "cargo"
    /\ pc[w] = "price"
    /\ AllStarted
    /\ w \notin cancel_req
    /\ r \in Answers("price", item[w])
    /\ LET i == item[w]
           out == ExtractData(r, i, req[i])
           lt == CargoLoopTop(queue, req)
       IN /\ IF out.ok
             THEN /\ result_list' = Append(result_list, out.route)
                  /\ routes_success' = routes_success + 1
                  /\ UNCHANGED <<routes_fail, routes_fail_list>>
             ELSE /\ routes_fail' = CargoExcept(routes_fail, routes_fail_list, i).fail
                  /\ routes_fail_list' = CargoExcept(routes_fail, routes_fail_list, i).fail_list
                  /\ UNCHANGED <<routes_success, result_list>>
          /\ unfinished' = TaskDone(unfinished)
          /\ pc' = [pc EXCEPT ![w] = lt.pc]
          /\ item' = [item EXCEPT ![w] = lt.item]
          /\ call' = [call EXCEPT ![w] = lt.call]
          /\ queue' = lt.queue
    /\ UNCHANGED <<parser, oracle, pure, thread_limit, nsubmitted, net, mainpc, batch, submitted, report,
                   cancel_req, req, cityVars>>

\* mutant of CargoJoinPassed: the tasks are cancelled without waiting at the
\* barrier
CargoJoinPassedEarly ==
    /\ parser = "cargo"
    /\ mainpc = "join"
    /\ AllStarted
    /\ cancel_req' = Spawned(Len(batch))
    /\ mainpc' = "gather"
    /\ UNCHANGED <<parser, oracle, pure, thread_limit, nsubmitted, net, batch, submitted, report, queue,
                   unfinished, pc, item, call, cargoVars, cityVars>>

\* _run_cargo_parsing passes `await self._queue.join()` and cancels its tasks
CargoJoinPassed ==
    /\ parser = "cargo"
    /\ mainpc = "join"
    /\ AllStarted
    /\ unfinished = 0
    /\ cancel_req' = Spawned(Len(batch))
    /\ mainpc' = "gather"
    /\ UNCHANGED <<parser, oracle, pure, thread_limit, nsubmitted, net, batch, submitted, report, queue,
                   unfinished, pc, item, call, cargoVars, cityVars>>

\* a cancelled task gets CancelledError at the await it is suspended at (or
\* before it first runs) and ends; `except Exception` does not catch it.
\* The loop wakes the cancelled tasks in the order of the cancel() calls.
TaskCancelled(w) ==
    /\ w \in cancel_req
    /\ pc[w] \notin {"none", "exited"}
    /\ \A v \in cancel_req : v < w => pc[v] = "exited"
    /\ pc' = [pc EXCEPT ![w] = "exited"]
    /\ item' = [item EXCEPT ![w] = NoItem]
    /\ call' = [call EXCEPT ![w] = NoCall]
    /\ UNCHANGED <<parser, oracle, pure, thread_limit, nsubmitted, net, mainpc, batch, submitted, report,
                   queue, unfinished, cancel_req, cargoVars, cityVars>>

\* gather returns, asyncio.run returns, _retrieve_data builds the report
CargoReturn ==
    /\ parser = "cargo"
    /\ mainpc = "gather"
    /\ \A w \in Spawned(Len(batch)) : pc[w] = "exited"
    /\ mainpc' = "returned"
    /\ report' = RequestsReport(Len(batch), routes_success, routes_fail, routes_fail_list)
    /\ UNCHANGED <<parser, oracle, pure, thread_limit, nsubmitted, net, batch, submitted, queue, unfinished,
                   pc, item, call, cancel_req, cargoVars, cityVars>>

CargoNext ==
    \/ \E b \in CargoBatches : RetrieveData(b)
    \/ \E w \in Workers : CargoWorkerRun(w)
    \/ \E w \in Workers : \E r \in EngineSvcResponses : CargoServiceIdResume(w, r)
    \/ \E w \in Workers : \E r \in EnginePriceResponses : CargoPriceResume(w, r)
    \/ CargoJoinPassed
    \/ CargoReturn

\* ------------------------------------------------------- city: the engine
\* the top of CityParser._worker's loop up to its next suspension point:
\* cache hits are served and acknowledged one after another without
\* suspending; the loop stops at an empty queue (sleep) or at a miss (the
\* autocomplete call)
RECURSIVE CityLoopTop(_, _, _, _, _)
CityLoopTop(q, cache, res, succ, unf) ==
    IF Len(q) <= 0
    THEN [pc |-> "sleep", item |-> None, queue |-> q, call |-> NoCall,
          results |-> res, success |-> succ, unfinished |-> unf]
    ELSE LET city_name == Head(q)
         IN IF MapGet(cache, city_name) # EmptyDict
            THEN CityLoopTop(Tail(q), cache,
                             MapPut(res, city_name, MapGet(cache, city_name)),
                             succ + 1, TaskDone(unf))
            ELSE [pc |-> "city", item |-> city_name, queue |-> Tail(q),
                  call |-> [kind |-> "city", name |-> city_name],
                  results |-> res, success |-> succ, unfinished |-> unf]

\* what _get_cities_info passes to models.CitiesReport
CityReportKw(n) ==
    [routes_total |-> n, routes_success |-> cities_success,
     routes_fail |-> cities_fail, routes_fail_list |-> cities_fail_list]

\* get_cities_info: _get_cities_info and _run_city_parsing up to
\* `await self._queue.join()`; a call with no name passes the barrier at once
GetCitiesInfo(b) ==
    /\ parser = "city"
    /\ mainpc \in {"idle", "returned"}
    /\ nsubmitted + Len(b) <= MaxTotal
    /\ nsubmitted' = nsubmitted + Len(b)
    /\ net' \in NetModes
    /\ batch' = b
    /\ results' = << >>
    /\ queue' = b
    /\ unfinished' = Len(b)
    /\ pc' = [w \in Workers |-> IF w \in Spawned(Len(b)) THEN "start" ELSE "none"]
    /\ item' = [w \in Workers |-> None]
    /\ call' = [w \in Workers |-> NoCall]
    /\ cancel_req' = {}
    /\ IF Len(b) = 0
       THEN /\ mainpc' = "returned"
            /\ report' = CitiesReport(CityReportKw(Len(b)))
       ELSE /\ mainpc' = "join"
            /\ UNCHANGED report
    /\ UNCHANGED <<parser, oracle, pure, thread_limit, submitted, cargoVars, cached_cities,
                   cities_success, cities_fail, cities_fail_list>>

\* a task of CityParser._worker runs from its start, or from the end of its
\* sleep, to its next suspension point
CityWorkerRun(w) ==
    /\ parser = "city"
    /\ Ready(w)
    /\ w \notin cancel_req
    /\ LET lt == CityLoopTop(queue, cached_cities, results, cities_success, unfinished)
       IN /\ pc' = [pc EXCEPT ![w] = lt.pc]
          /\ item' = [item EXCEPT ![w] = lt.item]
          /\ call' = [call EXCEPT ![w] = lt.call]
          /\ queue' = lt.queue
          /\ results' = lt.results
          /\ cities_success' = lt.success
          /\ unfinished' = lt.unfinished
    /\ UNCHANGED <<parser, oracle, pure, thread_limit, nsubmitted, net, mainpc, batch, submitted, report,
                   cancel_req, cargoVars, cached_cities, cities_fail, cities_fail_list>>

\* mutant of CityExcept: the name is not appended to the fail list
CityExceptNoAppend(fail, fail_list, city_name) ==
    [fail |-> fail + 1, fail_list |-> fail_list]

\* CityParser._worker's except branch (lines 104-108)
CityExcept(fail, fail_list, city_name) ==
    [fail |-> fail + 1, fail_list |-> Append(fail_list, city_name)]

\* CityParser._worker resumes with the answer r to its autocomplete call:
\* lines 98-102 when _extract_city_dict returns, else the except branch; then
\* task_done and the loop top
CityResume(w, r) ==
    /\ parser = "city"
    /\ pc[w] = "city"
    /\ AllStarted
    /\ w \notin cancel_req
    /\ r \in Answers("city", item[w])
    /\ LET city_name == item[w]
           out == ExtractCityDict(r, city_name)
           res1 == IF out.ok THEN MapPut(results, city_name, out.dict) ELSE results
           cache1 == IF out.ok THEN MapPut(cached_cities, city_name, out.dict)
                     ELSE cached_cities
           succ1 == IF out.ok THEN cities_success + 1 ELSE cities_success
           lt == CityLoopTop(queue, cache1, res1, succ1, TaskDone(unfinished))
       IN /\ cached_cities' = cache1
          /\ IF out.ok
             THEN UNCHANGED <<cities_fail, cities_fail_list>>
             ELSE /\ cities_fail' = CityExcept(cities_fail, cities_fail_list, city_name).fail
                  /\ cities_fail_list' =
                        CityExcept(cities_fail, cities_fail_list, city_name).fail_list
          /\ pc' = [pc EXCEPT ![w] = lt.pc]
          /\ item' = [item EXCEPT ![w] = lt.item]
          /\ call' = [call EXCEPT ![w] = lt.call]
          /\ queue' = lt.queue
          /\ results' = lt.results
          /\ cities_success' = lt.success
          /\ unfinished' = lt.unfinished
    /\ UNCHANGED <<parser, oracle, pure, thread_limit, nsubmitted, net, mainpc, batch, submitted, report,
                   cancel_req, cargoVars>>

\* _run_city_parsing passes `await self._queue.join()` and cancels its tasks
CityJoinPassed ==
    /\ parser = "city"
    /\ mainpc = "join"
    /\ AllStarted
    /\ unfinished = 0
    /\ cancel_req' = Spawned(Len(batch))
    /\ mainpc' = "gather"
    /\ UNCHANGED <<parser, oracle, pure, thread_limit, nsubmitted, net, batch, submitted, report, queue,
                   unfinished, pc, item, call, cargoVars, cityVars>>

\* gather returns, asyncio.run returns, _get_cities_info builds the report
CityReturn ==
    /\ parser = "city"
    /\ mainpc = "gather"
    /\ \A w \in Spawned(Len(batch)) : pc[w] = "exited"
    /\ mainpc' = "returned"
    /\ report' = CitiesReport(CityReportKw(Len(batch)))
    /\ UNCHANGED <<parser, oracle, pure, thread_limit, nsubmitted, net, batch, submitted, queue,
                   unfinished, pc, item, call, cancel_req, cargoVars, cityVars>>

CityNext ==
    \/ \E b \in CityBatches : GetCitiesInfo(b)
    \/ \E w \in Workers : CityWorkerRun(w)
    \/ \E w \in Workers : \E r \in UNION {EngineCityResponses(n) : n \in CityNames} :
          CityResume(w, r)
    \/ CityJoinPassed
    \/ CityReturn

Next ==
    \/ CargoNext
    \/ CityNext
    \/ \E w \in Workers : TaskCancelled(w)

Spec == Init /\ [][Next]_vars

\* --------------------------------- the response handlers, called on their own
\* requests that differ in the fields _parse_service_id compares
RequestVariants ==
    {[NewRequest(1) EXCEPT !.cargo_type_descr = d, !.mode = m, !.tariff_description = t] :
        d \in {"express", "other"}, m \in {"HOME-HOME", "HOME-OFFICE"},
        t \in {"16:00", "18:00"}}

\* requests as _worker hands them to _extract_data_from_resp_dict: with what
\* _parse_service_id returned for some answer attached
ResolvedRequests ==
    {AttachResolved(NewRequest(i), ParseServiceId(a, NewRequest(i))) :
        i \in Requests, a \in {b \in SvcResponses : ParseServiceId(b, NewRequest(1)).ok}}

PureInputs ==
    {[op |-> "parse_service_id", resp |-> a, rq |-> q, done |-> FALSE] :
        a \in SvcResponses, q \in RequestVariants}
    \cup
    {[op |-> "extract_data", resp |-> a, rq |-> q, done |-> FALSE] :
        a \in PriceResponses, q \in ResolvedRequests}

InitPure ==
    /\ parser = "cargo"
    /\ oracle = FreeNetwork
    /\ pure \in PureInputs
    /\ InitInstance
    /\ thread_limit = 1

\* _parse_service_id(cargo_request) with the endpoint answering pure.resp
CallParseServiceId ==
    /\ pure.op = "parse_service_id"
    /\ ~pure.done
    /\ pure' = [op |-> pure.op, resp |-> pure.resp, rq |-> pure.rq, done |-> TRUE,
                 out |-> ParseServiceId(pure.resp, pure.rq)]
    /\ UNCHANGED <<engineVars, cargoVars, cityVars>>

\* _extract_data_from_resp_dict(cargo_data, cargo_request)
CallExtractData ==
    /\ pure.op = "extract_data"
    /\ ~pure.done
    /\ pure' = [op |-> pure.op, resp |-> pure.resp, rq |-> pure.rq, done |-> TRUE,
                 out |-> ExtractData(pure.resp, 1, pure.rq)]
    /\ UNCHANGED <<engineVars, cargoVars, cityVars>>

NextPure == CallParseServiceId \/ CallExtractData

SpecPure == InitPure /\ [][NextPure]_vars

\* ------------------------------------------------------- a fair scheduler
\* the steps of the task w: it runs when it is ready, and the remote call it
\* waits for returns or raises
WorkerStep(w) ==
    \/ CargoWorkerRun(w)
    \/ \E r \in EngineSvcResponses : CargoServiceIdResume(w, r)
    \/ \E r \in EnginePriceResponses : CargoPriceResume(w, r)
    \/ CityWorkerRun(w)
    \/ \E r \in UNION {EngineCityResponses(n) : n \in CityNames} : CityResume(w, r)
    \/ TaskCancelled(w)

\* the steps of the coroutine that waits at the barrier and at gather
CallerStep == CargoJoinPassed \/ CargoReturn \/ CityJoinPassed \/ CityReturn

\* the event loop runs every ready task, and every remote call ends
Fairness ==
    /\ \A w \in Workers : WF_vars(WorkerStep(w))
    /\ WF_vars(CallerStep)

FairSpec == Init /\ [][Next]_vars /\ Fairness

\* ---------------------------------------- a CityParser and a fixed endpoint
\* autocomplete endpoints that answer a name with the same response each time
FixedOracles ==
    {[fixed |-> TRUE, of |-> f] :
        f \in {g \in [CityNames -> UNION {EngineCityResponses(n) : n \in CityNames}] :
                  \A n \in CityNames : g[n] \in EngineCityResponses(n)}}

InitFixed ==
    /\ parser = "city"
    /\ oracle \in FixedOracles
    /\ pure = NoPure
    /\ InitInstance

NextFixed ==
    \/ CityNext
    \/ \E w \in Workers : TaskCancelled(w)

SpecFixed == InitFixed /\ [][NextFixed]_vars

\* ------------------------------ the interface: _prepare_cargo_requests
\* the runs of one MainTokenCargoInterFace the model follows
MaxRuns == 2

\* d has the key k
HasKey(d, k) == \E p \in d : p[1] = k

\* what city resolution can leave in the cache under the name n: the empty
\* dict of an answer without a candidate of that name, or a record whose
\* city_uid is the candidate's uuid, None when the candidate has none, or a
\* string that is not a uuid
CacheRecords(n) ==
    {EmptyDict} \cup
    {{<<"name", n>>, <<"city_uid", u>>, <<"full_name", "full " \o n>>} :
        u \in {CityUid(n), None, "zz"}}

\* the caches _get_city_dicts can leave: a name whose resolution failed has
\* no entry
InterfaceCaches ==
    UNION {{c \in [D -> UNION {CacheRecords(n) : n \in CityNames}] :
               \A n \in D : c[n] \in CacheRecords(n)} : D \in SUBSET CityNames}

\* routes_to_parse: a list of (sender, receiver) pairs
RoutesToParse == UNION {[1..n -> CityNames \X CityNames] : n \in 0..MaxItems}

\* the constructor's packages (its keys, in the dict's order) and the keys
\* of its additional_services; the two are separate arguments
PackageConfigs ==
    { [packages |-> << "0.5" >>, additional_services |-> {"0.5"}],
      [packages |-> << "0.5", "2" >>, additional_services |-> {"0.5", "2"}],
      [packages |-> << "0.5", "2" >>, additional_services |-> {"0.5"}],
      [packages |-> << "1", "2" >>, additional_services |-> {"0.5", "2"}] }

\* UUID(self._cached_cities[city]['city_uid']): ok = FALSE when the lookup
\* of the name or of the key, or the conversion, raises
CachedCityUid(cache, city) ==
    IF city \notin DOMAIN cache THEN [ok |-> FALSE, val |-> None]
    ELSE IF ~HasKey(cache[city], "city_uid") THEN [ok |-> FALSE, val |-> None]
    ELSE UUID(DictGet(cache[city], "city_uid"))

\* models.RequestForCargo(...) as _prepare_cargo_requests builds it
RequestForCargo(sender_uuid, sender_city, receiver_uuid, receiver_city, key) ==
    [sender_city_id |-> sender_uuid, sender_city_name |-> sender_city,
     receiver_city_id |-> receiver_uuid, receiver_city_name |-> receiver_city,
     packages |-> << key >>, additional_services |-> key]

\* the loop over self.packages.items() for one route, from the k-th key:
\* self.additional_services[key] raises for a key it has not; the requests
\* appended before that stay in the list
RECURSIVE PackageLoop(_, _, _, _, _, _, _, _)
PackageLoop(keys, k, services, su, s, ru, r, requests) ==
    IF k > Len(keys) THEN [raised |-> FALSE, requests |-> requests]
    ELSE IF keys[k] \notin services THEN [raised |-> TRUE, requests |-> requests]
    ELSE PackageLoop(keys, k + 1, services, su, s, ru, r,
                     Append(requests, RequestForCargo(su, s, ru, r, keys[k])))

\* _prepare_cargo_requests from the k-th route on: the new _cargo_requests
\* and _route_errors
RECURSIVE PrepareCargoRequests(_, _, _, _, _, _)
PrepareCargoRequests(routes, k, cache, cfg, requests, errors) ==
    IF k > Len(routes) THEN [cargo_requests |-> requests, route_errors |-> errors]
    ELSE LET sender_city == routes[k][1]
             receiver_city == routes[k][2]
             sender_uuid == CachedCityUid(cache, sender_city)
             receiver_uuid == CachedCityUid(cache, receiver_city)
             loop == PackageLoop(cfg.packages, 1, cfg.additional_services,
                                 sender_uuid.val, sender_city,
                                 receiver_uuid.val, receiver_city, requests)
         IN IF ~sender_uuid.ok \/ ~receiver_uuid.ok
            THEN PrepareCargoRequests(routes, k + 1, cache, cfg, requests,
                                      Append(errors, routes[k]))
            ELSE IF loop.raised
            THEN PrepareCargoRequests(routes, k + 1, cache, cfg, loop.requests,
                                      Append(errors, routes[k]))
            ELSE PrepareCargoRequests(routes, k + 1, cache, cfg, loop.requests,
                                      errors)

\* MainTokenCargoInterFace.__init__, with the cache a run's _get_city_dicts
\* leaves
InitInterface ==
    /\ parser = "cargo"
    /\ oracle = FreeNetwork
    /\ pure \in {[op |-> "prepare_cargo_requests", routes_to_parse |-> rs,
                  cached_cities |-> c, config |-> cfg, runs |-> 0,
                  cargo_requests |-> << >>, route_errors |-> << >>] :
                    rs \in RoutesToParse, c \in InterfaceCaches, cfg \in PackageConfigs}
    /\ InitInstance
    /\ thread_limit = 1

\* _run_parsing reaches and runs _prepare_cargo_requests
RunPrepareCargoRequests ==
    /\ pure.op = "prepare_cargo_requests"
    /\ pure.runs < MaxRuns
    /\ LET out == PrepareCargoRequests(pure.routes_to_parse, 1, pure.cached_cities,
                                       pure.config, pure.cargo_requests,
                                       pure.route_errors)
       IN pure' = [pure EXCEPT !.runs = pure.runs + 1,
                               !.cargo_requests = out.cargo_requests,
                               !.route_errors = out.route_errors]
    /\ UNCHANGED <<engineVars, cargoVars, cityVars>>

NextInterface == RunPrepareCargoRequests

SpecInterface == InitInterface /\ [][NextInterface]_vars

\* ================================================================== claims

\* C1 (as stated; refuted): every call of retrieve_data, a second or later
\* call on the same parser included, returns a report whose routes_total is
\* the number of requests of that call and equals routes_success + routes_fail.
C1_ReportAddsUp ==
    (parser = "cargo" /\ mainpc = "returned") =>
        /\ report.routes_total = Len(batch)
        /\ report.routes_total = report.routes_success + report.routes_fail

\* the worker w handles an answer on which the item it holds fails
CargoItemRaises(w, r) ==
    \/ CargoServiceIdResume(w, r) /\ ~ParseServiceId(r, req[item[w]]).ok
    \/ CargoPriceResume(w, r) /\ ~ExtractData(r, item[w], req[item[w]]).ok

CityItemRaises(w, r) == CityResume(w, r) /\ ~ExtractCityDict(r, item[w]).ok

\* what a failure of w's item must leave of the rest of the run: the caller
\* still waits at the barrier, no other task is touched, and w is still
\* running: it has served `hits` cached names from the head of the queue
\* (none in the cargo parser) and is now asleep at an empty queue or holds
\* the next item
RunGoesOn(w) ==
    LET taken == Len(queue) - Len(queue')
        hits == taken - (IF pc'[w] = "sleep" THEN 0 ELSE 1)
    IN /\ mainpc' = mainpc
       /\ cancel_req' = cancel_req
       /\ \A v \in Workers \ {w} : pc'[v] = pc[v] /\ item'[v] = item[v]
       /\ taken >= 0
       /\ hits >= 0
       /\ queue' = SubSeq(queue, taken + 1, Len(queue))
       /\ unfinished' = unfinished - 1 - hits
       /\ IF parser = "cargo"
          THEN hits = 0
          ELSE /\ cities_success' = cities_success + hits
               /\ \A k \in 1..hits : queue[k] \in DOMAIN cached_cities
       /\ \/ pc'[w] = "sleep" /\ Len(queue') = 0
          \/ pc'[w] \in {"service_id", "city"} /\ item'[w] = queue[taken]

C2_FailStep ==
    \A w \in Workers :
        /\ \A r \in Answers(pc[w], item[w]) :
              CargoItemRaises(w, r) =>
                  /\ routes_fail' = routes_fail + 1
                  /\ routes_fail_list' = Append(routes_fail_list, item[w])
                  /\ routes_success' = routes_success
                  /\ result_list' = result_list
                  /\ RunGoesOn(w)
        /\ \A r \in Answers(pc[w], item[w]) :
              CityItemRaises(w, r) =>
                  /\ cities_fail' = cities_fail + 1
                  /\ cities_fail_list' = Append(cities_fail_list, item[w])
                  /\ cached_cities' = cached_cities
                  /\ RunGoesOn(w)

\* every item handed to the parser so far is queued, held by a task, or has
\* been counted as a success or as a failure; at the return none is queued
\* or held
C2_AllItemsSettled ==
    LET counted == IF parser = "cargo" THEN routes_success + routes_fail
                   ELSE cities_success + cities_fail
        held == Cardinality({w \in Workers : pc[w] \in {"service_id", "price", "city"}})
    IN /\ counted + held + Len(queue) = nsubmitted
       /\ unfinished = held + Len(queue)
       /\ mainpc \in {"gather", "returned"} => counted = nsubmitted

\* C2: in both resolvers an item whose processing raises is counted exactly
\* once as a failure and appended to the fail list, its worker goes on with
\* the next item, and every other item of the batch still reaches a success
\* or fail outcome before the call returns.
C2_FailureIsolated == [][C2_FailStep]_vars /\ []C2_AllItemsSettled

\* a call of two items has returned with one failure and one success
C2_Witness ==
    /\ mainpc = "returned"
    /\ Len(batch) = 2
    /\ nsubmitted = 2
    /\ \/ parser = "cargo" /\ routes_fail = 1 /\ routes_success = 1
       \/ parser = "city" /\ cities_fail = 1 /\ cities_success = 1

\* C3 (as stated; refuted): a call of N >= 1 cargo requests in which every
\* remote call raises a transport error returns with routes_fail = N,
\* routes_success = 0, no Route in the result and all N requests in
\* routes_fail_list.
C3_AllErrorsAllFail ==
    (parser = "cargo" /\ mainpc = "returned" /\ net = "down" /\ Len(batch) >= 1) =>
        /\ report.routes_fail = Len(batch)
        /\ report.routes_success = 0
        /\ Len(result_list) = 0
        /\ Len(report.routes_fail_list) = Len(batch)
        /\ \A k \in 1..Len(batch) :
              \E j \in 1..Len(report.routes_fail_list) :
                  report.routes_fail_list[j] = batch[k]

\* the names of a list
Names(b) == {b[k] : k \in 1..Len(b)}

\* C4 (as stated; refuted): get_cities_info returns results for exactly the
\* names that resolved and a report whose total is the number of names
\* submitted, whose success and fail counts add up to it, and whose fail
\* list holds the failed names.
C4_CitiesReport ==
    (parser = "city" /\ mainpc = "returned") =>
        /\ report.cities_total = Len(batch)
        /\ report.cities_success + report.cities_fail = Len(batch)
        /\ report.cities_fail = Len(report.routes_fail_list)
        /\ DOMAIN results \subseteq Names(batch)
        /\ Names(batch) \subseteq DOMAIN results \cup Names(report.routes_fail_list)

\* a step that puts the price call of task w on the wire
C5_PriceStep ==
    \A w \in Workers :
        (pc'[w] = "price" /\ (pc[w] # "price" \/ item'[w] # item[w])) =>
            /\ pc[w] = "service_id"
            /\ item'[w] = item[w]
            /\ \E r \in Answers("service_id", item[w]) :
                  /\ CargoServiceIdResume(w, r)
                  /\ ParseServiceId(r, req[item[w]]).ok
                  /\ call'[w].body.serviceId
                        = StrUid(ParseServiceId(r, req[item[w]]).service_id)

\* the body of every price call on the wire
C5_PriceBody ==
    \A w \in Workers :
        pc[w] = "price" =>
            /\ call[w].kind = "price"
            /\ call[w].body.serviceId # None
            /\ call[w].body.serviceId \in {UuidCanon(u) : u \in ValidUuidStrings}

\* C5: in every interleaving the price call of a request is issued only by
\* the step in which that request's service-id resolution returned, and the
\* body sent to the price endpoint carries the resolved, non-null serviceId.
C5_ServiceIdBeforePrice == [][C5_PriceStep]_vars /\ []C5_PriceBody

\* two price calls are on the wire at once, each with its serviceId
C5_Witness ==
    /\ parser = "cargo"
    /\ \E v \in Workers : \E w \in Workers :
          /\ v # w
          /\ pc[v] = "price" /\ pc[w] = "price"
          /\ call[v].body.serviceId = "u1" /\ call[w].body.serviceId = "u1"

\* C6 (as stated; refuted): once a name is in the cache (every name the
\* resolver counts as a success is put there, or was found there), a later
\* lookup of it by any task issues no autocomplete call.
C6_NoCallForResolved ==
    [][\A w \in Workers :
          ( /\ \/ CityWorkerRun(w)
               \/ \E r \in Answers(pc[w], item[w]) : CityResume(w, r)
            /\ pc'[w] = "city" )
          => item'[w] \notin DOMAIN cached_cities']_vars

\* the answer r holds no candidate named n
NoExactMatch(r, n) ==
    /\ ~r.err
    /\ \/ r.data.isnone
       \/ \A k \in 1..Len(r.data.items) : r.data.items[k].name # n

\* C7 (as stated; refuted): an autocomplete answer with no candidate of
\* exactly the queried name makes the item fail: it is counted in the fail
\* counter, put in the fail list, and nothing is written for it to the
\* results or to the cache.
C7_NoMatchFails ==
    [][\A w \in Workers : \A r \in Answers(pc[w], item[w]) :
          (CityResume(w, r) /\ NoExactMatch(r, item[w])) =>
              /\ cities_fail' = cities_fail + 1
              /\ cities_fail_list' = Append(cities_fail_list, item[w])
              /\ DOMAIN cached_cities' = DOMAIN cached_cities
              /\ (item[w] \in DOMAIN results') = (item[w] \in DOMAIN results)]_vars

\* no group of the answer r has the request's cargo-type descriptor
NoGroupMatches(r, rq) ==
    /\ ~r.err
    /\ ~r.data.isnone
    /\ \A k \in 1..Len(r.data.items) : r.data.items[k].description # rq.cargo_type_descr

\* no tariff of a group with the request's descriptor has its mode and
\* tariff descriptor
NoTariffMatches(r, rq) ==
    /\ ~r.err
    /\ ~r.data.isnone
    /\ \A k \in 1..Len(r.data.items) :
          r.data.items[k].description = rq.cargo_type_descr =>
              /\ ~r.data.items[k].tariffs.isnone
              /\ \A j \in 1..Len(r.data.items[k].tariffs.items) :
                    LET t == r.data.items[k].tariffs.items[j]
                    IN ~(t.mode = rq.mode /\ t.shortDescription = rq.tariff_description)

C8_Step ==
    \A w \in Workers : \A r \in Answers(pc[w], item[w]) :
        ( /\ CargoServiceIdResume(w, r)
          /\ NoGroupMatches(r, req[item[w]]) \/ NoTariffMatches(r, req[item[w]]) )
        => /\ routes_fail' = routes_fail + 1
           /\ routes_fail_list' = Append(routes_fail_list, item[w])
           /\ result_list' = result_list
           /\ req' = req
           /\ \A v \in Workers : ~(pc'[v] \in {"service_id", "price"} /\ item'[v] = item[w])
           /\ \A k \in 1..Len(queue') : queue'[k] # item[w]

\* C8: when no tariff group matches a request's cargo-type descriptor, or no
\* tariff matches its mode and tariff descriptor, the request is recorded as
\* failed and no price call is issued for it: after the step no task holds
\* it and it is not queued again.
C8_NoPriceAfterFailedResolution == [][C8_Step]_vars

\* a request has failed with the network up and without a service id: its
\* resolution failed, and the call has returned with no Route
C8_Witness ==
    /\ parser = "cargo"
    /\ mainpc = "returned"
    /\ net = "up"
    /\ batch = <<1>>
    /\ routes_fail_list = <<1>>
    /\ req[1].service_id = None
    /\ result_list = << >>

\* the step appends an entry to routes_fail_list
FailAppended == Len(routes_fail_list') = Len(routes_fail_list) + 1

\* the entry appended by the step
Appended == routes_fail_list'[Len(routes_fail_list')]

\* C9 (as stated; refuted): the entry recorded in routes_fail_list for a
\* request that fails, in step 1 or in step 2, has the field values the
\* request had when it was submitted, service_id, duration_min and
\* duration_max included.
C9_FailEntryVerbatim ==
    [][FailAppended => req'[Appended] = submitted[Appended]]_vars

\* the fields of a request that _worker never assigns
Unresolved(rq) ==
    [rq EXCEPT !.service_id = None, !.duration_min = None, !.duration_max = None]

C9_Step ==
    FailAppended =>
        \E w \in Workers :
            /\ item[w] = Appended
            /\ batch # << >> /\ Appended \in Names(batch)
            /\ Unresolved(req'[Appended]) = Unresolved(submitted[Appended])
            /\ \/ /\ pc[w] = "service_id"
                  /\ req'[Appended] = submitted[Appended]
               \/ /\ pc[w] = "price"
                  /\ req'[Appended] = req[Appended]
                  /\ StrUid(req'[Appended].service_id) = call[w].body.serviceId
                  /\ \E r \in EngineSvcResponses :
                        LET out == ParseServiceId(r, submitted[Appended])
                        IN /\ out.ok
                           /\ req'[Appended].service_id = out.service_id
                           /\ req'[Appended].duration_min = out.duration_min
                           /\ req'[Appended].duration_max = out.duration_max

\* C9 (amended): the entry recorded in routes_fail_list for a failing request
\* is the submitted request object; after a failure in step 1 all its fields
\* are as submitted; after a failure in step 2 its service_id, duration_min
\* and duration_max are the values resolved in step 1 (the service_id sent
\* in the price body) and every other field is as submitted.
C9_FailEntryOriginal == [][C9_Step]_vars

\* a request submitted without a service id has failed in step 2: its entry
\* in the fail list carries the resolved service id
C9_Witness ==
    /\ parser = "cargo"
    /\ mainpc = "returned"
    /\ batch = <<1>>
    /\ nsubmitted = 1
    /\ routes_fail_list = <<1>>
    /\ submitted[1].service_id = None
    /\ req[1].service_id = "u1"

\* C10 (as stated; refuted): a call with no item spawns no task, passes the
\* barrier and returns an empty result and a report whose counts are all 0
\* and whose fail list is empty.
C10_EmptyBatch ==
    (mainpc = "returned" /\ Len(batch) = 0) =>
        /\ \A w \in Workers : pc[w] = "none"
        /\ IF parser = "cargo"
           THEN /\ Len(result_list) = 0
                /\ report = RequestsReport(0, 0, 0, << >>)
           ELSE /\ DOMAIN results = {}
                /\ report.cities_total = 0
                /\ report.cities_success = 0
                /\ report.cities_fail = 0
                /\ Len(report.routes_fail_list) = 0

\* the tasks created for the current (or last) call
TasksOfCall == {w \in Workers : pc[w] # "none"}

\* the tasks that hold an item
Holders == {w \in Workers : pc[w] \in {"service_id", "price", "city"}}

\* C11 (as stated; refuted): the number of workers spawned for a batch equals
\* min(thread_limit, number of items).
C11_SpawnedIsMin ==
    mainpc # "idle" => Cardinality(TasksOfCall) = Min(thread_limit, Len(batch))

\* C11 (amended): the number of workers spawned for a batch is
\* min(thread_limit, number of items), or 0 when thread_limit is negative;
\* only spawned workers hold items, so the workers that process an item are
\* never more than the items of the batch.
C11_SpawnedClamped ==
    mainpc # "idle" =>
        /\ Cardinality(TasksOfCall)
              = (IF thread_limit < 0 THEN 0 ELSE Min(thread_limit, Len(batch)))
        /\ Cardinality(TasksOfCall) <= Len(batch)
        /\ Holders \subseteq TasksOfCall

\* a pool larger than the batch: thread_limit 2 and one item, which the only
\* task spawned holds
C11_Witness ==
    /\ thread_limit = 2
    /\ Len(batch) = 1
    /\ Cardinality(TasksOfCall) = 1
    /\ Cardinality(Holders) = 1

\* C12 (as stated; refuted): the result list a retrieve_data call returns
\* holds exactly one Route for each request of that batch that succeeded and
\* no other Route: every Route is of a request of the batch, no request has
\* two, every request of the batch has a Route or an entry in the fail list,
\* and the length is the number of successes of the batch.
C12_OneRoutePerSuccess ==
    (parser = "cargo" /\ mainpc = "returned") =>
        /\ \A k \in 1..Len(result_list) : result_list[k].request \in Names(batch)
        /\ \A j \in 1..Len(result_list) : \A k \in 1..Len(result_list) :
              j # k => result_list[j].request # result_list[k].request
        /\ \A i \in Names(batch) :
              \/ \E k \in 1..Len(result_list) : result_list[k].request = i
              \/ \E k \in 1..Len(routes_fail_list) : routes_fail_list[k] = i
        /\ Len(result_list) <= Len(batch)

\* an entry of the cache is never removed or changed
CacheStable ==
    \A n \in DOMAIN cached_cities :
        n \in DOMAIN cached_cities' /\ cached_cities'[n] = cached_cities[n]

\* the record a call has resolved for a name is the cache's entry for it
ResultsFromCache ==
    \A n \in DOMAIN results :
        n \in DOMAIN cached_cities /\ results[n] = cached_cities[n]

\* C13: with an autocomplete endpoint that answers the same name with the
\* same response, every resolution of a name yields the record the cache
\* holds for it, and a later resolution of the name (in the same batch or in
\* a later one) leaves that cache entry as it was: both resolutions yield the
\* identical record.
C13_Idempotent == [][CacheStable]_vars /\ []ResultsFromCache

\* the same name was resolved twice in one batch, both times with success
C13_Witness ==
    /\ oracle.fixed
    /\ mainpc = "returned"
    /\ batch = << "Unknownville", "Unknownville" >>
    /\ nsubmitted = 2
    /\ cities_success = 2
    /\ MapGet(results, "Unknownville") # EmptyDict

\* task w is resolving a name that another task resolves at the same time:
\* the other is still in flight on it, or has written its record since w
\* missed the cache
Concurrent(w) ==
    \/ \E v \in Workers \ {w} : pc[v] = "city" /\ item[v] = item[w]
    \/ MapGet(cached_cities, item[w]) # EmptyDict

\* C14 (as stated; refuted): when two workers resolve the same uncached name
\* concurrently, each write leaves a record for that name in the cache (so
\* the cache holds one after both finish), and no write removes or alters
\* the entry of another name.
C14_ConcurrentSameName ==
    [][\A w \in Workers : \A r \in Answers(pc[w], item[w]) :
          (CityResume(w, r) /\ ExtractCityDict(r, item[w]).ok /\ Concurrent(w)) =>
              /\ MapGet(cached_cities', item[w]) # EmptyDict
              /\ DictGet(MapGet(cached_cities', item[w]), "name") = item[w]
              /\ \A n \in DOMAIN cached_cities \ {item[w]} :
                    n \in DOMAIN cached_cities' /\ cached_cities'[n] = cached_cities[n]]_vars

\* how many entries of the list s are x
RECURSIVE Occurrences(_, _)
Occurrences(s, x) ==
    IF Len(s) = 0 THEN 0
    ELSE (IF Head(s) = x THEN 1 ELSE 0) + Occurrences(Tail(s), x)

\* the requests of the Routes in result_list
RouteRequests == [k \in 1..Len(result_list) |-> result_list[k].request]

\* the caller leaves the barrier only with the queue empty, no item held and
\* every item acknowledged; and a step acknowledges exactly the items that
\* leave the queue or a task's hands for good
C15_BarrierStep ==
    /\ (mainpc = "join" /\ mainpc' # "join") =>
          Len(queue) = 0 /\ Holders = {} /\ unfinished = 0
    /\ mainpc' = mainpc =>
          unfinished - unfinished'
             = (Len(queue) + Cardinality(Holders)) - (Len(queue') + Cardinality(Holders'))

\* every item not yet acknowledged is in the queue or held by one task; in
\* the first batch of a cargo parser every request is in exactly one place:
\* queued, held by one task, or recorded once as a Route or as a failure
C15_OncePerItem ==
    /\ unfinished = Len(queue) + Cardinality(Holders)
    /\ (parser = "cargo" /\ nsubmitted = Len(batch)) =>
          \A i \in Names(batch) :
              Occurrences(queue, i) + Cardinality({w \in Holders : item[w] = i})
                 + Occurrences(RouteRequests, i) + Occurrences(routes_fail_list, i) = 1

\* C15: the dispatch coroutine passes the join barrier only when every
\* enqueued item has been taken and acknowledged; each item is taken by one
\* worker and acknowledged once on every path (cache hit, success, failure):
\* none is lost or processed twice.
C15_BarrierAfterAllDone == [][C15_BarrierStep]_vars /\ []C15_OncePerItem

\* the barrier was passed after a cache hit and a failure
C15_Witness ==
    /\ parser = "city"
    /\ mainpc = "gather"
    /\ batch = << "Moscow", "Unknownville" >>
    /\ nsubmitted = 2
    /\ cities_success = 1
    /\ cities_fail_list = << "Unknownville" >>
    /\ unfinished = 0

\* the items handed to the parser that have an outcome
Counted ==
    IF parser = "cargo" THEN routes_success + routes_fail
    ELSE cities_success + cities_fail

\* C16: with thread_limit >= 1, a fair scheduler and remote calls that all
\* return or raise, a run that waits at the barrier eventually returns, with
\* the queue empty, no item held and every item counted once as a success or
\* as a failure.
C16_RunReturns ==
    (thread_limit >= 1 /\ mainpc = "join")
        ~> (mainpc = "returned" /\ Len(queue) = 0 /\ Holders = {}
            /\ Counted = nsubmitted)

\* a run of two items with a single worker has returned
C16_Witness ==
    /\ thread_limit = 1
    /\ mainpc = "returned"
    /\ Len(batch) = 2
    /\ Counted = nsubmitted
    /\ \A w \in TasksOfCall : pc[w] = "exited"

\* the success counter, the fail counter and the fail list of the parser
Successes == IF parser = "cargo" THEN routes_success ELSE cities_success

Failures == IF parser = "cargo" THEN routes_fail ELSE cities_fail

FailList == IF parser = "cargo" THEN routes_fail_list ELSE cities_fail_list

\* the first batch of a fresh parser is running or has run
FirstBatch == mainpc # "idle" /\ nsubmitted = Len(batch)

\* queued + taken and not acknowledged + success + fail = submitted, and the
\* lists are as long as their counters say
C17_Balance ==
    FirstBatch =>
        /\ Len(queue) + Cardinality(Holders) + Successes + Failures = Len(batch)
        /\ Len(FailList) = Failures
        /\ parser = "cargo" => Len(result_list) = Successes

\* a step of a task during the first batch: nothing is enqueued, and the
\* counters, the lists and the acknowledgements move together, one counter
\* by one for each item that is done
C17_AtomicStep ==
    (FirstBatch /\ mainpc = "join" /\ mainpc' = "join") =>
        /\ Len(queue') <= Len(queue)
        /\ queue' = SubSeq(queue, Len(queue) - Len(queue') + 1, Len(queue))
        /\ Successes' >= Successes
        /\ Failures' - Failures \in {0, 1}
        /\ (Successes' - Successes) + (Failures' - Failures) = unfinished - unfinished'
        /\ Len(FailList') - Len(FailList) = Failures' - Failures
        /\ parser = "cargo" =>
              /\ Len(result_list') - Len(result_list) = Successes' - Successes
              /\ (Successes' - Successes) + (Failures' - Failures) \in {0, 1}

\* C17: during the first batch of a fresh parser, queued + taken and not
\* acknowledged + success + fail is the number of submitted items; no item
\* is enqueued after the workers start; each item changes one counter by
\* one, in the same step as the list append and the acknowledgement.
C17_CountersBalance == [][C17_AtomicStep]_vars /\ []C17_Balance

\* the first batch in mid-run: one item has its outcome, the other is held
\* by a task
C17_Witness ==
    /\ FirstBatch
    /\ mainpc = "join"
    /\ Len(batch) = 2
    /\ Len(queue) = 0
    /\ Cardinality(Holders) = 1
    /\ Successes + Failures = 1

\* the entry of name n in the mapping m is left as it was
EntryUnchanged(m1, m2, n) ==
    /\ (n \in DOMAIN m2) = (n \in DOMAIN m1)
    /\ n \in DOMAIN m1 => m2[n] = m1[n]

\* the step in which a task resumes from the autocomplete call: on success
\* the item is acknowledged with the new record in the cache and in the
\* results; on failure both are left as they were for the name
C18_ResumeStep ==
    \A w \in Workers : \A r \in Answers(pc[w], item[w]) :
        CityResume(w, r) =>
            LET n == item[w]
                out == ExtractCityDict(r, n)
            IN /\ unfinished' < unfinished
               /\ IF out.ok
                  THEN /\ n \in DOMAIN cached_cities' /\ cached_cities'[n] = out.dict
                       /\ n \in DOMAIN results' /\ results'[n] = cached_cities'[n]
                       /\ cities_fail' = cities_fail
                  ELSE /\ cached_cities' = cached_cities
                       /\ EntryUnchanged(results, results', n)
                       /\ cities_success' >= cities_success

\* no task holds the name n
Acknowledged(n) == \A w \in Workers : ~(pc[w] = "city" /\ item[w] = n)

\* C18: a city item that succeeds through the network is acknowledged with
\* its new record already in the shared cache, so that cache[name] equals
\* results[name] once it is acknowledged; a city item that fails leaves the
\* cache and the results unchanged for its name.
C18_CacheBeforeAck ==
    /\ [][C18_ResumeStep]_vars
    /\ [](\A n \in DOMAIN results :
             Acknowledged(n) => n \in DOMAIN cached_cities /\ cached_cities[n] = results[n])

\* a name that was not in the cache was resolved through the network
C18_Witness ==
    /\ parser = "city"
    /\ mainpc = "returned"
    /\ batch = << "Unknownville" >>
    /\ nsubmitted = 1
    /\ MapGet(results, "Unknownville") # EmptyDict
    /\ MapGet(cached_cities, "Unknownville") = MapGet(results, "Unknownville")

\* the tariff j of the group k of the answer r is in a group with the
\* request's cargo-type descriptor and has its mode and tariff descriptor
MatchingTariff(r, rq, k, j) ==
    /\ r.data.items[k].description = rq.cargo_type_descr
    /\ ~r.data.items[k].tariffs.isnone
    /\ j \in 1..Len(r.data.items[k].tariffs.items)
    /\ r.data.items[k].tariffs.items[j].mode = rq.mode
    /\ r.data.items[k].tariffs.items[j].shortDescription = rq.tariff_description

\* C19: what _parse_service_id returns is the serviceId (as a UUID) and the
\* duration bounds of a tariff that lies in a group whose description is the
\* request's cargo_type_descr and whose mode and shortDescription are the
\* request's mode and tariff_description; it raises when no group has the
\* descriptor, and when no tariff of the groups that have it satisfies both
\* conditions.
C19_ParseServiceId ==
    (pure.op = "parse_service_id" /\ pure.done) =>
        LET r == pure.resp
            rq == pure.rq
            out == pure.out
        IN /\ out.ok =>
                 /\ ~r.err /\ ~r.data.isnone
                 /\ \E k \in 1..Len(r.data.items) :
                       \E j \in 1..Len(r.data.items[k].tariffs.items) :
                           /\ MatchingTariff(r, rq, k, j)
                           /\ r.data.items[k].tariffs.items[j].serviceId \in ValidUuidStrings
                           /\ out.service_id
                                 = UuidCanon(r.data.items[k].tariffs.items[j].serviceId)
                           /\ out.duration_min = r.data.items[k].tariffs.items[j].durationMin
                           /\ out.duration_max = r.data.items[k].tariffs.items[j].durationMax
           /\ NoGroupMatches(r, rq) => ~out.ok
           /\ NoTariffMatches(r, rq) => ~out.ok

\* the method has returned the tariff of the second group, after a group of
\* another description whose tariff has the request's mode and descriptor
C19_Witness ==
    /\ pure.op = "parse_service_id"
    /\ pure.done
    /\ pure.out.ok
    /\ pure.out.service_id = "u1"
    /\ Len(pure.resp.data.items) = 2
    /\ pure.resp.data.items[1].description # pure.rq.cargo_type_descr

\* the price answer carries a data payload without calculatedAdditionalServices
LacksServiceList(r) == ~r.err /\ r.hasData /\ r.calculatedAdditionalServices.isnone

\* the Route is built as the claim says: no services, the request's duration
\* bounds, the weight of its first package
RouteAsClaimed(out, rq) ==
    /\ out.ok
    /\ out.route.services = << >>
    /\ out.route.duration_min = rq.duration_min
    /\ out.route.duration_max = rq.duration_max
    /\ out.route.weight = rq.packages[1].weight

\* C20 (as stated; refuted): a price response without a data payload makes
\* the item fail and adds no Route; a payload that lacks
\* calculatedAdditionalServices yields a successful Route with an empty
\* services list, the duration bounds resolved in step 1 and the weight of
\* the request's first package.
C20_MissingListIsEmpty ==
    (pure.op = "extract_data" /\ pure.done) =>
        /\ (~pure.resp.err /\ ~pure.resp.hasData) =>
              ~pure.out.ok /\ pure.out.route = NoRoute
        /\ LacksServiceList(pure.resp) => RouteAsClaimed(pure.out, pure.rq)

\* C20 (amended): a price response without a data payload makes the item
\* fail and adds no Route; a payload that lacks calculatedAdditionalServices
\* yields a successful Route with an empty services list, the duration bounds
\* resolved in step 1 and the weight of the request's first package, if it
\* carries a numeric deliveryPrice and totalCost and step 1 resolved numeric
\* duration bounds; otherwise building the Route raises and the item fails.
C20_MissingListIsEmptyIfComplete ==
    (pure.op = "extract_data" /\ pure.done) =>
        /\ (~pure.resp.err /\ ~pure.resp.hasData) =>
              ~pure.out.ok /\ pure.out.route = NoRoute
        /\ LacksServiceList(pure.resp) =>
              IF /\ pure.resp.deliveryPrice \in Numbers
                 /\ pure.resp.totalCost \in Numbers
                 /\ pure.rq.duration_min \in Numbers
                 /\ pure.rq.duration_max \in Numbers
              THEN /\ RouteAsClaimed(pure.out, pure.rq)
                   /\ pure.out.route.delivery_price = pure.resp.deliveryPrice
                   /\ pure.out.route.total_cost = pure.resp.totalCost
              ELSE ~pure.out.ok /\ pure.out.route = NoRoute

\* a complete payload without a service list has given a Route
C20_Witness ==
    /\ pure.op = "extract_data"
    /\ pure.done
    /\ LacksServiceList(pure.resp)
    /\ pure.out.ok
    /\ pure.out.route.services = << >>
    /\ pure.out.route.duration_min = "1"
    /\ pure.out.route.weight = 1

\* the places where a task waits for an outbound network call
NetworkCalls == {"service_id", "price", "city"}

\* C21 (as stated; refuted): a worker is suspended only at an outbound
\* network call: a task that has started and has not ended waits for the
\* answer of a remote call.
C21_SuspendsOnlyAtCalls ==
    \A w \in Workers : pc[w] \in NetworkCalls \cup {"none", "start", "exited"}

\* where the tasks rest: at a network call, holding an item and with the
\* call on the wire, or in the delay of the empty-queue poll, holding
\* nothing and with the queue empty
C21_RestingPlaces ==
    \A w \in Workers :
        /\ pc[w] \in NetworkCalls \cup {"none", "start", "sleep", "exited"}
        /\ (pc[w] \in NetworkCalls) = (item[w] # NoItem)
        /\ (pc[w] \in NetworkCalls) = (call[w] # NoCall)
        /\ pc[w] \in NetworkCalls => call[w].kind = pc[w]
        /\ pc[w] = "sleep" => Len(queue) = 0

\* a step of a task that is not cancelled: it runs from one resting place to
\* the next, and no other task moves meanwhile
C21_RunStep ==
    \A w \in Workers :
        (pc'[w] # pc[w] /\ pc'[w] # "exited" /\ mainpc = "join" /\ mainpc' = "join") =>
            /\ pc[w] \in NetworkCalls \cup {"start", "sleep"}
            /\ \A v \in Workers \ {w} :
                  pc'[v] = pc[v] /\ item'[v] = item[v] /\ call'[v] = call[v]

\* C21 (amended): a worker yields control to other workers at its outbound
\* network calls and at the delay of its empty-queue poll, and nowhere else:
\* taking an item, reading or writing the cache, updating the counters and
\* acknowledging happen between two such points, with no other task running.
C21_SuspensionPoints == [][C21_RunStep]_vars /\ []C21_RestingPlaces

\* one task waits in the empty-queue poll while another has a call in flight
C21_Witness ==
    /\ mainpc = "join"
    /\ \E v \in Workers : \E w \in Workers :
          pc[v] = "sleep" /\ pc[w] \in NetworkCalls

\* a step that cancels tasks passes the satisfied barrier; a task ends only
\* cancelled, after the barrier; the caller returns from a run with tasks
\* only when all of them have ended
C22_CancelStep ==
    /\ (cancel_req' # cancel_req /\ cancel_req' # {}) =>
          /\ mainpc = "join" /\ mainpc' = "gather"
          /\ unfinished = 0 /\ Len(queue) = 0 /\ Holders = {}
          /\ cancel_req' = TasksOfCall
    /\ \A w \in Workers :
          (pc'[w] = "exited" /\ pc[w] # "exited") =>
              w \in cancel_req /\ mainpc = "gather"
    /\ (mainpc = "gather" /\ mainpc' # "gather") =>
          /\ mainpc' = "returned"
          /\ \A w \in TasksOfCall : pc[w] = "exited"

\* while the caller waits at the barrier no task is cancelled and none has
\* ended; when the run has returned every task it created has ended
C22_Lifecycle ==
    /\ mainpc = "join" => (cancel_req = {} /\ \A w \in Workers : pc[w] # "exited")
    /\ mainpc = "returned" => \A w \in TasksOfCall : pc[w] = "exited"

\* C22: in every run the workers are cancelled only after the join barrier
\* is satisfied, no worker stops on its own before that, and the engine
\* returns only after every spawned worker has exited.
C22_CancelAfterBarrier == [][C22_CancelStep]_vars /\ []C22_Lifecycle

\* the barrier is passed and one of two cancelled tasks has ended
C22_Witness ==
    /\ mainpc = "gather"
    /\ Cardinality(cancel_req) = 2
    /\ Cardinality({w \in Workers : pc[w] = "exited"}) = 1

\* a step that cancels the tasks finds each of them in the delay of the
\* empty-queue poll, with no item and no call; a task that ends, ends there
C23_CancelStep ==
    /\ (cancel_req' # cancel_req /\ cancel_req' # {}) =>
          \A w \in cancel_req' :
              pc[w] = "sleep" /\ item[w] = NoItem /\ call[w] = NoCall
    /\ \A w \in Workers :
          (pc'[w] = "exited" /\ pc[w] # "exited") =>
              pc[w] = "sleep" /\ item[w] = NoItem /\ call[w] = NoCall

\* C23: at the moment the engine cancels the workers no worker holds an
\* unacknowledged item or has a network call in flight; every worker is
\* waiting in the empty-queue poll, and it is there that it is ended.
C23_CancelledWhileIdle == [][C23_CancelStep]_vars

\* two items were served and the two tasks, both in the poll, are cancelled
C23_Witness ==
    /\ mainpc = "gather"
    /\ Len(batch) = 2
    /\ cancel_req = {1, 2}
    /\ \A w \in cancel_req : pc[w] = "sleep" /\ item[w] = NoItem

\* a call with a non-empty batch made by a parser whose thread_limit is not
\* positive
NoPoolCall == thread_limit <= 0 /\ mainpc # "idle" /\ Len(batch) > 0

\* C24: a parser configured with thread_limit <= 0 and given a non-empty
\* batch spawns no worker, no item is ever taken from the queue, and the
\* join barrier is never satisfied: the caller stays at the barrier and no
\* step of the run is ever taken again.
C24_NeverReturns ==
    /\ [](NoPoolCall =>
            /\ mainpc = "join"
            /\ TasksOfCall = {}
            /\ queue = batch
            /\ unfinished = Len(batch)
            /\ cancel_req = {})
    /\ [][~NoPoolCall]_vars

\* two items are queued behind a barrier that no task will ever lower
C24_Witness ==
    /\ thread_limit = 0
    /\ mainpc = "join"
    /\ Len(queue) = 2
    /\ unfinished = 2
    /\ TasksOfCall = {}

\* the route (s, r) has a usable city record for both of its ends
UsableRoute(route) ==
    /\ CachedCityUid(pure.cached_cities, route[1]).ok
    /\ CachedCityUid(pure.cached_cities, route[2]).ok

\* how many entries of the sequence q satisfy Test
CountIn(q, Test(_)) == Cardinality({i \in DOMAIN q : Test(q[i])})

\* C25 (as stated; refuted): after _prepare_cargo_requests a route without a
\* usable city record for its sender or its receiver has no cargo request
\* and one entry in _route_errors for each of its occurrences; every other
\* route has one request per configured package and no entry in
\* _route_errors, each request carrying the cached ids of its own sender and
\* receiver; the number of requests is (routes - route errors) * packages.
C25_RequestsPerRoute ==
    (pure.op = "prepare_cargo_requests" /\ pure.runs > 0) =>
        LET routes == pure.routes_to_parse
            requests == pure.cargo_requests
            errors == pure.route_errors
            npackages == Len(pure.config.packages)
        IN /\ \A k \in DOMAIN routes :
                 LET route == routes[k]
                     Same(x) == x = route
                     Of(rq) == <<rq.sender_city_name, rq.receiver_city_name>> = route
                 IN IF UsableRoute(route)
                    THEN /\ CountIn(requests, Of) = CountIn(routes, Same) * npackages
                         /\ CountIn(errors, Same) = 0
                    ELSE /\ CountIn(requests, Of) = 0
                         /\ CountIn(errors, Same) = CountIn(routes, Same)
           /\ \A i \in DOMAIN requests :
                 /\ requests[i].sender_city_id
                       = CachedCityUid(pure.cached_cities, requests[i].sender_city_name).val
                 /\ requests[i].receiver_city_id
                       = CachedCityUid(pure.cached_cities, requests[i].receiver_city_name).val
           /\ Len(requests) = (Len(routes) - Len(errors)) * npackages

====
